---- MODULE Spec2Model ----
(***************************************************************************)
(* The contract engine of pl/interface.py: the rule registry               *)
(* (_Interface.rules), the class bindings (_Interface.inst_cls), the       *)
(* metaclass hooks that compile an interface body and bind a concrete      *)
(* class, the method wrapper and the attribute handlers of BaseInterface.  *)
(***************************************************************************)
EXTENDS Integers, Sequences, FiniteSets, TLC

VARIABLES
    rules,      \* _Interface.rules: interface name -> _IRule (m, p)
    inst_cls,   \* _Interface.inst_cls: class name -> the _IRule it refers to
    ifaces,     \* names of the interface classes that exist (declaration returned)
    classes,    \* the module's globals: class name -> the class object it names
    objs,       \* instances: the class object and the instance __dict__
    last        \* outcome of the last operation: what the caller observes

vars == <<rules, inst_cls, ifaces, classes, objs, last>>

\* -------------------------------------------------------------- bounds
\* The number of instances a run creates.
MaxObjs == 1

\* ------------------------------------------------------- Python values
\* A value is its runtime type, its printed atom and, for a list, its elements.
Scalar(t, a) == [t |-> t, a |-> a, els |-> <<>>]
List(els) == [t |-> "list", a |-> "", els |-> els]

NoneV == Scalar("NoneType", "None")
I0 == Scalar("int", "0")
I1 == Scalar("int", "1")
I5 == Scalar("int", "5")
BFalse == Scalar("bool", "0")
BTrue == Scalar("bool", "1")
SEmpty == Scalar("str", "")
Sftp == Scalar("str", "ftp")
Shttp == Scalar("str", "http")
Sabc == Scalar("str", "abc")
SNotSet == Scalar("str", "NOT_SET")

\* type(x)
TypeOf(x) == x.t

\* x == y on values: bool is a subclass of int and compares by number.
PyEq(x, y) ==
    \/ x = y
    \/ /\ x.t \in {"int", "bool"}
       /\ y.t \in {"int", "bool"}
       /\ x.a = y.a

\* T(): the instance a type builds from no argument.
TypeDefault(T) ==
    CASE T = "int" -> I0
      [] T = "str" -> SEmpty
      [] T = "bool" -> BFalse
      [] T = "list" -> List(<<>>)

\* ---------------------------------------------------------- exceptions
NoErr == [cls |-> "", required |-> ""]
Err(c, r) == [cls |-> c, required |-> r]
Raised(e) == e.cls # ""

\* InterfaceInputValueError and InterfaceOutputValueError derive from
\* InterfaceValueError, which derives from InterfaceError.
IsInterfaceValueError(e) ==
    e.cls \in {"InterfaceValueError", "InterfaceInputValueError",
               "InterfaceOutputValueError"}

\* InterfaceValueError(func_obj, required): get_func reads func_obj.__bind_cls__
\* whenever func_obj is not None, and only a wrapped function carries it.
InterfaceValueError(f, required) ==
    IF f \in {"None", "function"}
    THEN Err("InterfaceValueError", required)
    ELSE Err("AttributeError", "__bind_cls__")

\* The errors the engine raises, by raise statement.
MissingMethodError == InterfaceValueError("None", "MISSING")
SignatureMismatchError == InterfaceValueError("None", "the valid args")
ReadOnlyPropertyError == InterfaceValueError("None", "read-only attribute")
UndeclaredAttributeError == InterfaceValueError("None", "is not available")
InputValueError == Err("InterfaceInputValueError", "input error")
OutputValueError == Err("InterfaceOutputValueError", "output error")
DefinitionError == Err("InterfaceError", "the function arguement must be type")

\* ---------------------------------------------------- constraint objects
\* What an interface body binds to a name, and what the rules hold:
\*   type      a bare type object        _IValue  ExactType
\*   class     a class made by _Interface
\*   IList     TypedList                 IOption  OptionSet
\*   literal   any other value (a fixed, read-only value as a property)
Obj(k, T, opts, lit) == [k |-> k, TYPE |-> T, OPTIONS |-> opts, lit |-> lit]
TypeTok(T) == Obj("type", T, {}, NoneV)
\* A class the engine built: type(v) is _Interface, not type.
ClassTok(T) == Obj("class", T, {}, NoneV)
_IValue(T) == Obj("_IValue", T, {}, NoneV)
IList(T) == Obj("IList", T, {}, NoneV)
IOption(opts) == Obj("IOption", "", opts, NoneV)
Literal(v) == Obj("literal", "", {}, v)

\* f as the validators see it: a wrapped function, or the property name.
FuncArg(f) == IF f = "function" THEN "function" ELSE "None"

\* A type check in the manner of isinstance: bool is a subclass of int.
_IValue_validate_isinstance(rule, f, input) ==
    IF /\ TypeOf(input) # rule.TYPE
       /\ ~(rule.TYPE = "int" /\ TypeOf(input) = "bool")
    THEN InterfaceValueError(FuncArg(f), "is required")
    ELSE NoErr

_IValue_validate(rule, f, input) ==
    IF TypeOf(input) # rule.TYPE
    THEN InterfaceValueError(FuncArg(f), "is required")
    ELSE NoErr

\* An element check that looks at the first element only.
IList_elements_first_only(rule, f, els, i) ==
    IF Len(els) = 0 THEN NoErr ELSE _IValue_validate(rule, f, els[1])

RECURSIVE IList_elements(_, _, _, _)
IList_elements(rule, f, els, i) ==
    IF i > Len(els) THEN NoErr
    ELSE LET e == _IValue_validate(rule, f, els[i])
         IN IF Raised(e) THEN e ELSE IList_elements(rule, f, els, i + 1)

IList_validate(rule, f, input) ==
    IF TypeOf(input) # "list"
    THEN InterfaceValueError(f, "type of list is required")
    ELSE IList_elements(rule, f, input.els, 1)

\* A validation that accepts any value of the type of some option.
IOption_validate_type_only(rule, f, input) ==
    IF \A o \in rule.OPTIONS : TypeOf(input) # TypeOf(o)
    THEN InterfaceValueError(FuncArg(f), "one of")
    ELSE NoErr

IOption_validate(rule, f, input) ==
    IF \A o \in rule.OPTIONS : ~PyEq(input, o)
    THEN InterfaceValueError(FuncArg(f), "one of")
    ELSE NoErr

\* rule.validate(f, input), dispatched on the rule's class.
validate(rule, f, input) ==
    CASE rule.k = "_IValue" -> _IValue_validate(rule, f, input)
      [] rule.k = "IList" -> IList_validate(rule, f, input)
      [] rule.k = "IOption" -> IOption_validate(rule, f, input)

\* ------------------------------------------------------ namespace entries
\* A function of a class body: its parameter names after the receiver, the
\* defaults of its trailing parameters, the object @returns attached (or
\* NoReturns) and, for a concrete method, what its body does.
NoReturns == Obj("absent", "", {}, NoneV)
Const(v) == [op |-> "const", name |-> "", v |-> v]
Param(n) == [op |-> "param", name |-> n, v |-> NoneV]
SelfAttr(n) == [op |-> "attr", name |-> n, v |-> NoneV]
\* self.<set> = <val> (no assignment when set is ""), then return <ret>.
Body(set, val, ret) == [set |-> set, val |-> val, ret |-> ret]
NoBody == Body("", Const(NoneV), Const(NoneV))
Func(args, defaults, returns, body) ==
    [kind |-> "function", args |-> args, defaults |-> defaults,
     returns |-> returns, body |-> body, value |-> NoReturns]
Attr(value) ==
    [kind |-> "value", args |-> <<>>, defaults |-> <<>>,
     returns |-> NoReturns, body |-> NoBody, value |-> value]

Min(a, b) == IF a < b THEN a ELSE b
zip(xs, ys) == [i \in 1..Min(Len(xs), Len(ys)) |-> <<xs[i], ys[i]>>]

\* _IFunction._get_args: inspect reports defaults as None when there is none,
\* and zip(names, None) raises TypeError.
_get_args(f) ==
    IF f.args # <<>>
    THEN IF f.defaults = <<>>
         THEN [err |-> Err("TypeError", "zip"), IN_ |-> <<>>]
         ELSE [err |-> NoErr, IN_ |-> zip(f.args, f.defaults)]
    ELSE [err |-> NoErr, IN_ |-> <<>>]

\* _IFunction.__init__: the rule of one interface method.
_IFunction(obj) ==
    LET got == _get_args(obj)
        bad == {i \in 1..Len(got.IN_) :
                   got.IN_[i][2].k \notin {"type", "IList", "IOption"}}
        ins == [i \in 1..Len(got.IN_) |->
                   IF got.IN_[i][2].k = "type"
                   THEN <<got.IN_[i][1], _IValue(got.IN_[i][2].TYPE)>>
                   ELSE got.IN_[i]]
        out == IF obj.returns # NoReturns THEN obj.returns
                ELSE _IValue("NoneType")
    IN IF Raised(got.err) THEN [err |-> got.err, IN_ |-> <<>>, OUT_ |-> out]
       ELSE IF bad # {}
       THEN [err |-> DefinitionError, IN_ |-> <<>>, OUT_ |-> out]
       ELSE [err |-> NoErr, IN_ |-> ins, OUT_ |-> out]

\* ------------------------------------------------------------- registry
\* _IRule(): no method rule, no property rule.
_IRule == [m |-> <<>>, p |-> <<>>]

\* k.startswith('__'), over the names the class bodies use.
startswith__(k) == k \in {"__init__", "__module__", "__doc__"}

\* The loop of _establish_rules over namespace.items(), taken in `order`.
\* The exception of a failed _IFunction leaves the loop where it stands.
RECURSIVE establish_loop(_, _, _, _)
establish_loop(rule, namespace, order, i) ==
    IF i > Len(order) THEN [err |-> NoErr, rule |-> rule]
    ELSE LET k == order[i]
             v == namespace[k]
         IN IF k \in DOMAIN rule.m
            THEN establish_loop(rule, namespace, order, i + 1)
            ELSE IF v.kind = "function"
            THEN LET fr == _IFunction(v)
                 IN IF Raised(fr.err) THEN [err |-> fr.err, rule |-> rule]
                    ELSE establish_loop(
                           [rule EXCEPT !.m =
                               (k :> [IN_ |-> fr.IN_, OUT_ |-> fr.OUT_]) @@ @],
                           namespace, order, i + 1)
            ELSE IF ~startswith__(k)
            THEN establish_loop(
                   [rule EXCEPT !.p =
                       (k :> (IF v.value.k = "type" THEN _IValue(v.value.TYPE)
                              ELSE v.value)) @@ @],
                   namespace, order, i + 1)
            ELSE establish_loop(rule, namespace, order, i + 1)

\* _Interface._establish_rules(cls, namespace), cls.__name__ = name.
_establish_rules(rs, name, namespace, order) ==
    LET rs0 == IF name \in DOMAIN rs THEN rs ELSE (name :> _IRule) @@ rs
        res == establish_loop(rs0[name], namespace, order, 1)
    IN [err |-> res.err, rules |-> [rs0 EXCEPT ![name] = res.rule]]

\* ---------------------------------------------------------- class binding
\* A class attribute: the function (or value) of the body, and the rule the
\* wrapper _check_method_IO closes over when the method is wrapped.
NoRule == [IN_ |-> <<>>, OUT_ |-> NoReturns]
Plain(f) == [wrapped |-> FALSE, f |-> f, rule |-> NoRule]
\* _check_method_IO(f), f.__rule__ = rule
_check_method_IO(f, rule) == [wrapped |-> TRUE, f |-> f, rule |-> rule]
\* def __init__(obj): pass
NoopInit == Plain(Func(<<>>, <<>>, NoReturns, NoBody))

\* The attributes type.__new__ gives the class: those of its body.
BodyAttrs(namespace) == [k \in DOMAIN namespace |-> Plain(namespace[k])]

\* The loop of _apply_rules_to_method over the bound rule's m.keys(), taken
\* in `order`.
RECURSIVE apply_loop(_, _, _, _, _)
apply_loop(rule, namespace, attrs, order, i) ==
    IF i > Len(order) THEN [err |-> NoErr, attrs |-> attrs]
    ELSE LET k == order[i]
         IN IF k \notin DOMAIN namespace
            THEN [err |-> MissingMethodError, attrs |-> attrs]
            ELSE IF namespace[k].kind # "function"
            THEN apply_loop(rule, namespace, attrs, order, i + 1)
            ELSE LET current_IN == namespace[k].args
                     valid_IN == [j \in 1..Len(rule.m[k].IN_) |-> rule.m[k].IN_[j][1]]
                 IN IF valid_IN # current_IN
                    THEN [err |-> SignatureMismatchError, attrs |-> attrs]
                    ELSE apply_loop(rule, namespace,
                           (k :> _check_method_IO(namespace[k], rule.m[k])) @@ attrs,
                           order, i + 1)

\* The rule a class name is bound to: inst_cls holds a reference to the
\* _IRule object of _Interface.rules, which is never replaced once created.
BoundRule(ic, rs, cname) == rs[ic[cname]]

\* The constructor step of _apply_rules_to_method (lines 479-481).
install_init(rule, attrs) ==
    IF "__init__" \notin DOMAIN rule.m
    THEN ("__init__" :> NoopInit) @@ attrs
    ELSE attrs

\* _Interface._apply_rules_to_method(cls, namespace), cls.__name__ = cname,
\* cls.__bases__ = the interface classes named in bases.
_apply_rules_to_method(ic, rs, cname, bases, namespace, order) ==
    IF Len(bases) # 1
    THEN [err |-> Err("ValueError", "too many values to unpack"),
          inst_cls |-> ic, attrs |-> <<>>]
    ELSE LET ic1 == IF cname \in DOMAIN ic THEN ic
                    ELSE (cname :> bases[1]) @@ ic
             rule == BoundRule(ic1, rs, cname)
             res == apply_loop(rule, namespace,
                               install_init(rule, BodyAttrs(namespace)), order, 1)
         IN [err |-> res.err, inst_cls |-> ic1, attrs |-> res.attrs]

\* An assignment that refuses a name the rules do not declare.
__setattr__undeclared_rejected(ic, rs, cname, d, name, value) ==
    LET p == BoundRule(ic, rs, cname).p
    IN IF name \notin DOMAIN p
       THEN [err |-> UndeclaredAttributeError, dict |-> d]
       ELSE IF p[name].k \in {"_IValue", "IList", "IOption"}
       THEN LET e == validate(p[name], name, value)
            IN IF Raised(e) THEN [err |-> e, dict |-> d]
               ELSE [err |-> NoErr, dict |-> (name :> value) @@ d]
       ELSE [err |-> ReadOnlyPropertyError, dict |-> d]

\* An assignment that stores the value and validates it afterwards.
__setattr__stored_before_validated(ic, rs, cname, d, name, value) ==
    LET p == BoundRule(ic, rs, cname).p
    IN IF name \notin DOMAIN p
       THEN [err |-> NoErr, dict |-> (name :> value) @@ d]
       ELSE IF p[name].k \in {"_IValue", "IList", "IOption"}
       THEN [err |-> validate(p[name], name, value),
             dict |-> (name :> value) @@ d]
       ELSE [err |-> ReadOnlyPropertyError, dict |-> d]

\* An assignment that lets a read-only property be given the value it is
\* fixed to.
__setattr__same_value_allowed(ic, rs, cname, d, name, value) ==
    LET p == BoundRule(ic, rs, cname).p
    IN IF name \notin DOMAIN p
       THEN [err |-> NoErr, dict |-> (name :> value) @@ d]
       ELSE IF p[name].k \in {"_IValue", "IList", "IOption"}
       THEN LET e == validate(p[name], name, value)
            IN IF Raised(e) THEN [err |-> e, dict |-> d]
               ELSE [err |-> NoErr, dict |-> (name :> value) @@ d]
       ELSE IF PyEq(value, p[name].lit)
       THEN [err |-> NoErr, dict |-> (name :> value) @@ d]
       ELSE [err |-> ReadOnlyPropertyError, dict |-> d]

\* An assignment that stores the value before it rejects the write to a
\* read-only property.
__setattr__stored_before_rejected(ic, rs, cname, d, name, value) ==
    LET p == BoundRule(ic, rs, cname).p
    IN IF name \notin DOMAIN p
       THEN [err |-> NoErr, dict |-> (name :> value) @@ d]
       ELSE IF p[name].k \in {"_IValue", "IList", "IOption"}
       THEN LET e == validate(p[name], name, value)
            IN IF Raised(e) THEN [err |-> e, dict |-> d]
               ELSE [err |-> NoErr, dict |-> (name :> value) @@ d]
       ELSE [err |-> ReadOnlyPropertyError, dict |-> (name :> value) @@ d]

\* ------------------------------------------------- attribute interception
\* BaseInterface.__setattr__(self, name, value): d is self.__dict__, cname is
\* self.__class__.__name__.
__setattr__(ic, rs, cname, d, name, value) ==
    LET p == BoundRule(ic, rs, cname).p
    IN IF name \notin DOMAIN p
       THEN [err |-> NoErr, dict |-> (name :> value) @@ d]
       ELSE IF p[name].k \in {"_IValue", "IList", "IOption"}
       THEN LET e == validate(p[name], name, value)
            IN IF Raised(e) THEN [err |-> e, dict |-> d]
               ELSE [err |-> NoErr, dict |-> (name :> value) @@ d]
       ELSE [err |-> ReadOnlyPropertyError, dict |-> d]

\* A read that gives an unset TypedList property the empty list.
__getattr__empty_list(ic, rs, cname, d, name) ==
    LET p == BoundRule(ic, rs, cname).p
    IN IF name \in DOMAIN d
       THEN [err |-> NoErr, ret |-> d[name], dict |-> d]
       ELSE IF name \in DOMAIN p
       THEN IF p[name].k = "IList"
            THEN [err |-> NoErr, ret |-> List(<<>>),
                  dict |-> (name :> List(<<>>)) @@ d]
            ELSE IF p[name].k = "IOption"
            THEN [err |-> UndeclaredAttributeError,
                  ret |-> NoneV, dict |-> d]
            ELSE IF p[name].k = "_IValue"
            THEN [err |-> NoErr, ret |-> TypeDefault(p[name].TYPE),
                  dict |-> (name :> TypeDefault(p[name].TYPE)) @@ d]
            ELSE [err |-> NoErr, ret |-> p[name].lit,
                  dict |-> (name :> p[name].lit) @@ d]
       ELSE [err |-> UndeclaredAttributeError,
             ret |-> NoneV, dict |-> d]

\* A read that returns the default of an unset property without storing it.
__getattr__uncached(ic, rs, cname, d, name) ==
    LET p == BoundRule(ic, rs, cname).p
    IN IF name \in DOMAIN d
       THEN [err |-> NoErr, ret |-> d[name], dict |-> d]
       ELSE IF name \in DOMAIN p
       THEN IF p[name].k \in {"IList", "IOption"}
            THEN [err |-> UndeclaredAttributeError,
                  ret |-> NoneV, dict |-> d]
            ELSE IF p[name].k = "_IValue"
            THEN [err |-> NoErr, ret |-> TypeDefault(p[name].TYPE),
                  dict |-> d]
            ELSE [err |-> NoErr, ret |-> p[name].lit, dict |-> d]
       ELSE [err |-> UndeclaredAttributeError,
             ret |-> NoneV, dict |-> d]

\* BaseInterface.__getattr__(self, name).
__getattr__(ic, rs, cname, d, name) ==
    LET p == BoundRule(ic, rs, cname).p
    IN IF name \in DOMAIN d
       THEN [err |-> NoErr, ret |-> d[name], dict |-> d]
       ELSE IF name \in DOMAIN p
       THEN IF p[name].k \in {"IList", "IOption"}
            THEN [err |-> UndeclaredAttributeError,
                  ret |-> NoneV, dict |-> d]
            ELSE IF p[name].k = "_IValue"
            THEN [err |-> NoErr, ret |-> TypeDefault(p[name].TYPE),
                  dict |-> (name :> TypeDefault(p[name].TYPE)) @@ d]
            ELSE [err |-> NoErr, ret |-> p[name].lit,
                  dict |-> (name :> p[name].lit) @@ d]
       ELSE [err |-> UndeclaredAttributeError,
             ret |-> NoneV, dict |-> d]

\* ------------------------------------------------------------ method call
\* Python's binding of a call f(self, *args, **kwrd) to f's parameters: the
\* values by parameter name, or TypeError.
BindArgs(f, args, kwrd) ==
    LET n == Len(f.args)
        firstDefault == n - Len(f.defaults) + 1
        names == {f.args[i] : i \in 1..n}
        missing == {i \in 1..n : /\ i > Len(args)
                                 /\ f.args[i] \notin DOMAIN kwrd
                                 /\ i < firstDefault}
        twice == {i \in 1..n : i <= Len(args) /\ f.args[i] \in DOMAIN kwrd}
    IN IF \/ Len(args) > n
          \/ missing # {}
          \/ twice # {}
          \/ \E k \in DOMAIN kwrd : k \notin names
       THEN [err |-> Err("TypeError", "arguments"), bound |-> <<>>]
       ELSE [err |-> NoErr,
             bound |-> [k \in names |->
                          LET i == CHOOSE j \in 1..n : f.args[j] = k
                          IN IF i <= Len(args) THEN args[i]
                             ELSE IF k \in DOMAIN kwrd THEN kwrd[k]
                             ELSE f.defaults[i - firstDefault + 1]]]

\* An expression of a method body: a constant, a parameter, or self.<name>.
Eval(ic, rs, cname, d, bound, e) ==
    CASE e.op = "const" -> [err |-> NoErr, ret |-> e.v, dict |-> d]
      [] e.op = "param" -> [err |-> NoErr, ret |-> bound[e.name], dict |-> d]
      [] e.op = "attr" -> __getattr__(ic, rs, cname, d, e.name)

\* f(*args, **kwrd): the body of a concrete method run on the instance.
RunBody(ic, rs, cname, d, f, args, kwrd) ==
    LET b == BindArgs(f, args, kwrd)
    IN IF Raised(b.err)
       THEN [err |-> b.err, ret |-> NoneV, dict |-> d, ran |-> FALSE]
       ELSE LET v == Eval(ic, rs, cname, d, b.bound, f.body.val)
                w == IF f.body.set = "" \/ Raised(v.err)
                     THEN [err |-> v.err,
                           dict |-> IF f.body.set = "" THEN d ELSE v.dict]
                     ELSE __setattr__(ic, rs, cname, v.dict, f.body.set, v.ret)
                r == Eval(ic, rs, cname, w.dict, b.bound, f.body.ret)
            IN IF Raised(w.err)
               THEN [err |-> w.err, ret |-> NoneV, dict |-> w.dict, ran |-> TRUE]
               ELSE [err |-> r.err, ret |-> r.ret, dict |-> r.dict, ran |-> TRUE]

\* The input loop of new_f: zip(rules, args[1:]), the first failure raised.
\* An input check that looks at the first positional argument only.
check_inputs_first_only(rule, args, i) ==
    IF Min(Len(rule.IN_), Len(args)) < 1 THEN NoErr
    ELSE LET e == validate(rule.IN_[1][2], "function", args[1])
         IN IF Raised(e)
            THEN IF IsInterfaceValueError(e)
                 THEN InputValueError
                 ELSE e
            ELSE NoErr

\* An input check that also demands an argument for every constraint.
check_inputs_all_required(rule, args, i) ==
    IF Len(args) < Len(rule.IN_) THEN InputValueError
    ELSE IF \E j \in 1..Len(rule.IN_) :
               Raised(validate(rule.IN_[j][2], "function", args[j]))
    THEN InputValueError
    ELSE NoErr

RECURSIVE check_inputs(_, _, _)
check_inputs(rule, args, i) ==
    IF i > Min(Len(rule.IN_), Len(args)) THEN NoErr
    ELSE LET e == validate(rule.IN_[i][2], "function", args[i])
         IN IF Raised(e)
            THEN IF IsInterfaceValueError(e)
                 THEN InputValueError
                 ELSE e
            ELSE check_inputs(rule, args, i + 1)

\* A wrapper that hands the body's result back without validating it.
new_f_output_unchecked(ic, rs, cname, d, attr, args, kwrd) ==
    LET ein == check_inputs(attr.rule, args, 1)
    IN IF Raised(ein)
       THEN [err |-> ein, ret |-> NoneV, dict |-> d, ran |-> FALSE]
       ELSE RunBody(ic, rs, cname, d, attr.f, args, kwrd)

\* A wrapper that validates the body's result and does not hand it back.
new_f_result_dropped(ic, rs, cname, d, attr, args, kwrd) ==
    LET ein == check_inputs(attr.rule, args, 1)
    IN IF Raised(ein)
       THEN [err |-> ein, ret |-> NoneV, dict |-> d, ran |-> FALSE]
       ELSE LET res == RunBody(ic, rs, cname, d, attr.f, args, kwrd)
                eout == validate(attr.rule.OUT_, "function", res.ret)
            IN IF Raised(res.err) THEN res
               ELSE IF Raised(eout)
               THEN [err |-> IF IsInterfaceValueError(eout) THEN OutputValueError
                             ELSE eout,
                     ret |-> NoneV, dict |-> res.dict, ran |-> TRUE]
               ELSE [res EXCEPT !.ret = NoneV]

\* A wrapper that checks the result only of a method with a return rule.
new_f_undecorated_unchecked(ic, rs, cname, d, attr, args, kwrd) ==
    LET ein == check_inputs(attr.rule, args, 1)
    IN IF Raised(ein)
       THEN [err |-> ein, ret |-> NoneV, dict |-> d, ran |-> FALSE]
       ELSE LET res == RunBody(ic, rs, cname, d, attr.f, args, kwrd)
                eout == IF attr.rule.OUT_ = _IValue("NoneType") THEN NoErr
                        ELSE validate(attr.rule.OUT_, "function", res.ret)
            IN IF Raised(res.err) THEN res
               ELSE IF Raised(eout)
               THEN [err |-> IF IsInterfaceValueError(eout) THEN OutputValueError
                             ELSE eout,
                     ret |-> NoneV, dict |-> res.dict, ran |-> TRUE]
               ELSE res

\* _check_method_IO.new_f(*args, **kwrd): args are those after the receiver.
new_f(ic, rs, cname, d, attr, args, kwrd) ==
    LET ein == check_inputs(attr.rule, args, 1)
    IN IF Raised(ein)
       THEN [err |-> ein, ret |-> NoneV, dict |-> d, ran |-> FALSE]
       ELSE LET res == RunBody(ic, rs, cname, d, attr.f, args, kwrd)
                eout == validate(attr.rule.OUT_, "function", res.ret)
            IN IF Raised(res.err) THEN res
               ELSE IF Raised(eout)
               THEN [err |-> IF IsInterfaceValueError(eout) THEN OutputValueError
                             ELSE eout,
                     ret |-> NoneV, dict |-> res.dict, ran |-> TRUE]
               ELSE res

\* obj.k(*args, **kwrd) for a class attribute k: the wrapper when the method
\* was wrapped, the function itself otherwise.
CallAttr(ic, rs, cname, d, attr, args, kwrd) ==
    IF attr.f.kind # "function"
    THEN [err |-> Err("TypeError", "not callable"), ret |-> NoneV,
          dict |-> d, ran |-> FALSE]
    ELSE IF attr.wrapped THEN new_f(ic, rs, cname, d, attr, args, kwrd)
    ELSE RunBody(ic, rs, cname, d, attr.f, args, kwrd)

\* ------------------------------------------------------- declared programs
\* The class bodies the declarations draw from.  The entries Python adds to
\* every body (__module__, __doc__) are skipped by line 457 and left out.

\* class IPort(BaseInterface):
\*     def set_port(self, port_id = int): pass
\*     @returns(int)
\*     def get_port(self): pass
IPortMethods ==
    ("set_port" :> Func(<<"port_id">>, <<TypeTok("int")>>, NoReturns, NoBody))
    @@ ("get_port" :> Func(<<>>, <<>>, _IValue("int"), NoBody))

\* class IPort(BaseInterface):
\*     def __init__(self, name = str, port_id = int): pass
IPortInit ==
    "__init__" :> Func(<<"name", "port_id">>,
                       <<TypeTok("str"), TypeTok("int")>>, NoReturns, NoBody)

\* class IPort(BaseInterface):
\*     name = str
\*     version = 1
IPortName ==
    ("name" :> Attr(TypeTok("str")))
    @@ ("version" :> Attr(Literal(I1)))

\* class IPort(BaseInterface):
\*     port_type = IOption('ftp', 'http')
\*     version = 5
IPortType ==
    ("port_type" :> Attr(IOption({Sftp, Shttp})))
    @@ ("version" :> Attr(Literal(I5)))

StorePort == Body("_port_id", Param("port_id"), Const(NoneV))
LoadPort == Body("", Const(NoneV), SelfAttr("_port_id"))

\* class MyPort(IPort) of the module docstring.
MyPortBody ==
    ("set_port" :> Func(<<"port_id">>, <<>>, NoReturns, StorePort))
    @@ ("get_port" :> Func(<<>>, <<>>, NoReturns, LoadPort))

\* MyPort with a constructor that keeps the port.
InitPortBody ==
    ("__init__" :> Func(<<"name", "port_id">>, <<>>, NoReturns,
                        Body("_port_id", Param("port_id"), Const(NoneV))))
    @@ MyPortBody

\* class YourPort(IPort) of the module docstring: __init__ sets self.name.
YourPortBody ==
    "__init__" :> Func(<<>>, <<>>, NoReturns,
                       Body("name", Const(SNotSet), Const(NoneV)))

\* class PortMgr(IPortMgr): pass
EmptyBody == <<>>

\* get_port is not defined.
NoGetPortBody ==
    "set_port" :> Func(<<"port_id">>, <<>>, NoReturns, StorePort)

\* set_port names its parameter x.
RenamedBody ==
    ("set_port" :> Func(<<"x">>, <<>>, NoReturns,
                        Body("_port_id", Param("x"), Const(NoneV))))
    @@ ("get_port" :> Func(<<>>, <<>>, NoReturns, LoadPort))

\* set_port declares a default, stores its argument and returns it.
EchoBody ==
    ("set_port" :> Func(<<"port_id">>, <<I0>>, NoReturns,
                        Body("_port_id", Param("port_id"), Param("port_id"))))
    @@ ("get_port" :> Func(<<>>, <<>>, NoReturns, LoadPort))

\* class IPort(BaseInterface):
\*     def name(self): pass
IPortNameMethod == "name" :> Func(<<>>, <<>>, NoReturns, NoBody)

\* class IPort(BaseInterface):
\*     def set_ports(self, ports = IList(int), kind = IOption('ftp', 'http')):
\*         pass
IPortPorts ==
    "set_ports" :> Func(<<"ports", "kind">>,
                        <<IList("int"), IOption({Sftp, Shttp})>>,
                        NoReturns, NoBody)

\* class IPort(BaseInterface):
\*     def set_port(self, port_id = 5): pass
IPortBadDefault ==
    "set_port" :> Func(<<"port_id">>, <<Literal(I5)>>, NoReturns, NoBody)

\* class IPort(BaseInterface):
\*     def connect(self, peer = MyPort): pass
IPortPeer ==
    "connect" :> Func(<<"peer">>, <<ClassTok("MyPort")>>, NoReturns, NoBody)

\* class IPortMgr(BaseInterface):
\*     ports = IList(int)
\*     count = int
\*     port_type = IOption('ftp', 'http')
IPortMgrBody ==
    ("ports" :> Attr(IList("int")))
    @@ ("count" :> Attr(TypeTok("int")))
    @@ ("port_type" :> Attr(IOption({Sftp, Shttp})))

\* class MyPort(IPort):
\*     def set_port(self, port_id): self._port_id = port_id
\*     get_port = 5
ValueBody ==
    ("set_port" :> Func(<<"port_id">>, <<>>, NoReturns, StorePort))
    @@ ("get_port" :> Attr(Literal(I5)))

\* class IPort(BaseInterface):
\*     def open(self, host, port_id = int): pass
IPortTrailing ==
    "open" :> Func(<<"host", "port_id">>, <<TypeTok("int")>>, NoReturns,
                   NoBody)

\* class IPort(BaseInterface):
\*     name = str
\*     def set_port(self, port_id = 5): pass
IPortNameBadDefault ==
    ("name" :> Attr(TypeTok("str"))) @@ IPortBadDefault

NoKwrd == <<>>

\* The orders in which a dict may yield the keys S.
Orders(S) ==
    {o \in [1..Cardinality(S) -> S] :
        \A i, j \in 1..Cardinality(S) : i # j => o[i] # o[j]}

\* ------------------------------------------------------------------ state
\* What the last statement was and what its caller saw: op, the instance
\* (who), the name declared, called or accessed, the arguments (the bases of
\* a class statement, the value of an assignment), the class body of a
\* declaration (for a call, its keyword arguments), the exception raised (or NoErr), the value returned and, for a
\* call, whether the method body was entered.
Outcome(op, who, name, args, body, err, ret, ran) ==
    [op |-> op, who |-> who, name |-> name, args |-> args, body |-> body,
     err |-> err, ret |-> ret, ran |-> ran]

Init ==
    /\ rules = <<>>
    /\ inst_cls = <<>>
    /\ ifaces = {}
    /\ classes = <<>>
    /\ objs = <<>>
    /\ last = Outcome("import", 0, "", <<>>, <<>>, NoErr, NoneV, FALSE)

\* class <name>(BaseInterface): <namespace>   (_Interface.__new__, line 418)
DeclareInterface(name, namespace, order) ==
    LET res == _establish_rules(rules, name, namespace, order)
    IN /\ rules' = res.rules
       /\ ifaces' = IF Raised(res.err) THEN ifaces ELSE ifaces \cup {name}
       /\ last' = Outcome("interface", 0, name, <<>>, namespace, res.err, NoneV,
                          FALSE)
       /\ UNCHANGED <<inst_cls, classes, objs>>

\* class <cname>(<bases>): <namespace>   (_Interface.__new__, line 421).
\* The class statement binds cname only when __new__ returns.
DeclareClass(cname, bases, namespace, order) ==
    LET res == _apply_rules_to_method(inst_cls, rules, cname, bases,
                                      namespace, order)
        cls == [name |-> cname, bases |-> bases, namespace |-> namespace,
                attrs |-> res.attrs]
    IN /\ inst_cls' = res.inst_cls
       /\ classes' = IF Raised(res.err) THEN classes
                     ELSE (cname :> cls) @@ classes
       /\ last' = Outcome("class", 0, cname, bases, namespace, res.err, NoneV,
                          FALSE)
       /\ UNCHANGED <<rules, ifaces, objs>>

\* The iteration orders of the rule a declaration of cname against base binds.
ClassOrders(cname, base) ==
    Orders(DOMAIN BoundRule(IF cname \in DOMAIN inst_cls THEN inst_cls
                            ELSE (cname :> base) @@ inst_cls,
                            rules, cname).m)

\* obj = cls(*args): object.__new__, then the class's __init__.
New(cls, args) ==
    LET res == CallAttr(inst_cls, rules, cls.name, <<>>,
                        cls.attrs["__init__"], args, NoKwrd)
    IN /\ Len(objs) < MaxObjs
       /\ objs' = IF Raised(res.err) THEN objs
                  ELSE Append(objs, [cls |-> cls, dict |-> res.dict])
       /\ last' = Outcome("new", Len(objs) + 1, cls.name, args, <<>>, res.err,
                          NoneV, res.ran)
       /\ UNCHANGED <<rules, inst_cls, ifaces, classes>>

\* objs[i].k(*args)
Call(i, k, args) ==
    LET o == objs[i]
        res == CallAttr(inst_cls, rules, o.cls.name, o.dict, o.cls.attrs[k],
                        args, NoKwrd)
    IN /\ objs' = [objs EXCEPT ![i].dict = res.dict]
       /\ last' = Outcome("call", i, k, args, <<>>, res.err, res.ret, res.ran)
       /\ UNCHANGED <<rules, inst_cls, ifaces, classes>>

\* objs[i].k(*args, **kwrd)
CallKw(i, k, args, kwrd) ==
    LET o == objs[i]
        res == CallAttr(inst_cls, rules, o.cls.name, o.dict, o.cls.attrs[k],
                        args, kwrd)
    IN /\ objs' = [objs EXCEPT ![i].dict = res.dict]
       /\ last' = Outcome("call", i, k, args, kwrd, res.err, res.ret, res.ran)
       /\ UNCHANGED <<rules, inst_cls, ifaces, classes>>

\* objs[i].name = value
SetAttr(i, name, value) ==
    LET o == objs[i]
        res == __setattr__(inst_cls, rules, o.cls.name, o.dict, name, value)
    IN /\ objs' = [objs EXCEPT ![i].dict = res.dict]
       /\ last' = Outcome("set", i, name, <<value>>, <<>>, res.err, NoneV, FALSE)
       /\ UNCHANGED <<rules, inst_cls, ifaces, classes>>

\* objs[i].name
GetAttr(i, name) ==
    LET o == objs[i]
        res == __getattr__(inst_cls, rules, o.cls.name, o.dict, name)
    IN /\ objs' = [objs EXCEPT ![i].dict = res.dict]
       /\ last' = Outcome("get", i, name, <<>>, <<>>, res.err, res.ret, FALSE)
       /\ UNCHANGED <<rules, inst_cls, ifaces, classes>>

\* ---------------------------------------------------------- specifications
\* Declarations only: two interface names, and classes that meet or miss
\* the method rules.
DeclInterfaceBodies == {IPortMethods, IPortName}
DeclClasses ==
    {<<"MyPort", MyPortBody>>, <<"MyPort", NoGetPortBody>>,
     <<"MyPort", RenamedBody>>, <<"MyPort", EchoBody>>,
     <<"YourPort", YourPortBody>>, <<"YourPort", EmptyBody>>}

NextDecl ==
    \/ \E name \in {"IPort", "IOther"}, ns \in DeclInterfaceBodies :
         \E order \in Orders(DOMAIN ns) : DeclareInterface(name, ns, order)
    \/ \E c \in DeclClasses, base \in ifaces :
         \E order \in ClassOrders(c[1], base) :
            DeclareClass(c[1], <<base>>, c[2], order)

SpecDecl == Init /\ [][NextDecl]_vars

\* Method calls: the IPort and MyPort of the module docstring, and an IPort
\* that also rules the constructor.
CallArgLists == {<<>>, <<I5>>, <<Sabc>>, <<Sabc, I5>>, <<Sabc, Sabc>>}

NextCall ==
    \/ \E ns \in {IPortMethods, IPortInit} :
         \E order \in Orders(DOMAIN ns) : DeclareInterface("IPort", ns, order)
    \/ \E base \in ifaces, ns \in {MyPortBody, EchoBody, InitPortBody} :
         \E order \in ClassOrders("MyPort", base) :
            DeclareClass("MyPort", <<base>>, ns, order)
    \/ \E cname \in DOMAIN classes, args \in CallArgLists :
         New(classes[cname], args)
    \/ \E i \in 1..Len(objs) :
         \E k \in DOMAIN objs[i].cls.attrs \ {"__init__"},
            args \in CallArgLists : Call(i, k, args)
    \/ \E i \in 1..Len(objs), value \in {I5, Sabc} :
         SetAttr(i, "_port_id", value)
    \/ \E i \in 1..Len(objs) : GetAttr(i, "_port_id")

SpecCall == Init /\ [][NextCall]_vars

\* Property access: the IPort with properties and the YourPort of the
\* module docstring, IPort being declared in two parts.
PropNames == {"name", "port_type", "version"}
PropValues == {I5, Sftp, Sabc}

NextProp ==
    \/ \E ns \in {IPortName, IPortType} :
         \E order \in Orders(DOMAIN ns) : DeclareInterface("IPort", ns, order)
    \/ \E base \in ifaces, ns \in {YourPortBody} :
         \E order \in ClassOrders("YourPort", base) :
            DeclareClass("YourPort", <<base>>, ns, order)
    \/ \E cname \in DOMAIN classes : New(classes[cname], <<>>)
    \/ \E i \in 1..Len(objs), name \in PropNames, value \in PropValues :
         SetAttr(i, name, value)
    \/ \E i \in 1..Len(objs), name \in PropNames : GetAttr(i, name)

SpecProp == Init /\ [][NextProp]_vars

\* Properties of each constraint kind and an attribute without a rule: the
\* IPortMgr and PortMgr of the IList docstring.
MgrSets ==
    {<<"ports", v>> : v \in {Sabc, List(<<>>), List(<<I5>>),
                             List(<<I5, Sabc>>)}}
    \cup {<<"count", v>> : v \in {I5, BTrue}}
    \cup {<<"port_type", v>> : v \in {Sftp, Sabc}}
    \cup {<<"_tag", v>> : v \in {Sabc, List(<<I5, Sabc>>)}}
MgrNames == {"ports", "count", "port_type", "_tag"}

NextMgr ==
    \/ \E order \in Orders(DOMAIN IPortMgrBody) :
         DeclareInterface("IPortMgr", IPortMgrBody, order)
    \/ /\ "IPortMgr" \in ifaces
       /\ DeclareClass("PortMgr", <<"IPortMgr">>, EmptyBody, <<>>)
    \/ \E cname \in DOMAIN classes : New(classes[cname], <<>>)
    \/ \E i \in 1..Len(objs), nv \in MgrSets : SetAttr(i, nv[1], nv[2])
    \/ \E i \in 1..Len(objs), name \in MgrNames : GetAttr(i, name)

SpecMgr == Init /\ [][NextMgr]_vars

\* Calls with positional and keyword arguments, some leaving the parameter
\* to its default.
KwArgLists == {<<>>, <<I5>>, <<Sabc>>}
Kwrds == {NoKwrd, "port_id" :> I5, "port_id" :> Sabc}

NextKw ==
    \/ \E order \in Orders(DOMAIN IPortMethods) :
         DeclareInterface("IPort", IPortMethods, order)
    \/ \E base \in ifaces, ns \in {MyPortBody, EchoBody} :
         \E order \in ClassOrders("MyPort", base) :
            DeclareClass("MyPort", <<base>>, ns, order)
    \/ \E cname \in DOMAIN classes : New(classes[cname], <<>>)
    \/ \E i \in 1..Len(objs) :
         \E k \in DOMAIN objs[i].cls.attrs \ {"__init__"},
            args \in KwArgLists, kwrd \in Kwrds : CallKw(i, k, args, kwrd)

SpecKw == Init /\ [][NextKw]_vars

\* Validation alone: validate applied to one constraint and one value, as a
\* wrapper applies it (f a function) and as __setattr__ does (f the name).
MaxListLen == 2
Elements == {I0, I5, BTrue, Sabc, NoneV}
Lists ==
    {List(els) : els \in UNION {[1..n -> Elements] : n \in 0..MaxListLen}}
ValValues == Elements \cup Lists
ValRules ==
    {_IValue(T) : T \in {"int", "str", "bool", "list", "NoneType"}}
    \cup {IList(T) : T \in {"int", "str", "bool"}}
    \cup {IOption({Sftp, Shttp}), IOption({I0, I1})}

InitValidate ==
    /\ rules = <<>>
    /\ inst_cls = <<>>
    /\ ifaces = {}
    /\ classes = <<>>
    /\ objs = <<>>
    /\ \E rule \in ValRules, f \in {"function", "name"}, input \in ValValues :
          last = Outcome("input", 0, f, <<input>>, rule, NoErr, NoneV, FALSE)

\* rule.validate(f, input)
Validate ==
    /\ last.op = "input"
    /\ last' = [last EXCEPT !.op = "validate",
                            !.err = validate(last.body, last.name,
                                             last.args[1])]
    /\ UNCHANGED <<rules, inst_cls, ifaces, classes, objs>>

SpecValidate == InitValidate /\ [][Validate]_vars

\* Definitions: an IPort declared in parts, with well-formed and malformed
\* method defaults, and classes with one base or two.
DefInterfaceBodies ==
    {IPortName, IPortNameMethod, IPortMethods, IPortPorts, IPortBadDefault,
     IPortTrailing, IPortNameBadDefault}

NextDef ==
    \/ \E ns \in DefInterfaceBodies :
         \E order \in Orders(DOMAIN ns) : DeclareInterface("IPort", ns, order)
    \/ \E order \in Orders(DOMAIN IPortName) :
         DeclareInterface("IOther", IPortName, order)
    \/ /\ "MyPort" \in DOMAIN classes
       /\ DeclareInterface("IPort", IPortPeer, <<"connect">>)
    \/ \E base \in ifaces, ns \in {EmptyBody, MyPortBody, ValueBody} :
         \E order \in ClassOrders("MyPort", base) :
            DeclareClass("MyPort", <<base>>, ns, order)
    \/ \E b1 \in ifaces : \E b2 \in ifaces \ {b1} :
         DeclareClass("MyPort", <<b1, b2>>, MyPortBody, <<>>)

SpecDef == Init /\ [][NextDef]_vars

\* ------------------------------------------------------------------ claims
\* The step just taken is the one last' describes.  The class attribute a
\* call or instantiation step invokes, and the rule an instance is held to.
StepTarget ==
    IF last'.op = "new" THEN classes[last'.name].attrs["__init__"]
    ELSE objs[last'.who].cls.attrs[last'.name]
ObjRule(i) == BoundRule(inst_cls, rules, objs[i].cls.name)
RuledAs(i, name, kinds) ==
    /\ name \in DOMAIN ObjRule(i).p
    /\ ObjRule(i).p[name].k \in kinds
\* Some positional argument violates the IN constraint at its position.
ViolatesInput(attr, args) ==
    \E j \in 1..Min(Len(attr.rule.IN_), Len(args)) :
        Raised(validate(attr.rule.IN_[j][2], "function", args[j]))
\* The property variant of an input value error: InterfaceValueError as the
\* validators raise it.
PropertyInputValueErrors ==
    {Err("InterfaceValueError", r) :
        r \in {"is required", "one of", "type of list is required"}}
\* A step that is no assignment keeps every stored value of a name ruled as
\* one of kinds.
KeepsStored(kinds) ==
    last'.op # "set" =>
        \A i \in 1..Len(objs) : \A n \in DOMAIN objs[i].dict :
            RuledAs(i, n, kinds) =>
                /\ n \in DOMAIN objs'[i].dict
                /\ objs'[i].dict[n] = objs[i].dict[n]

\* C1: a call (or instantiation) through a wrapper with a positional argument
\* that violates the constraint at its position raises InputValueError, the
\* body is not entered and every instance's stored attributes are unchanged.
C1_InputRejected ==
    [][(/\ last'.op \in {"call", "new"}
        /\ StepTarget.wrapped
        /\ ViolatesInput(StepTarget, last'.args))
       => (/\ last'.err = InputValueError
           /\ ~last'.ran
           /\ objs' = objs)]_vars

\* C1 witness: set_port('abc') was rejected on an instance that holds a port.
C1_Witness ==
    /\ last.op = "call"
    /\ last.name = "set_port"
    /\ last.args = <<Sabc>>
    /\ last.err = InputValueError
    /\ ~last.ran
    /\ "_port_id" \in DOMAIN objs[last.who].dict

\* C2: a call through a wrapper whose arguments pass and whose body returns a
\* value violating OUT raises OutputValueError, and the instance's store is
\* the one the body left (its writes are not rolled back).
C2_OutputRejected ==
    [][(last'.op = "call" /\ StepTarget.wrapped) =>
        LET o == objs[last'.who]
            body == RunBody(inst_cls, rules, o.cls.name, o.dict, StepTarget.f,
                            last'.args, NoKwrd)
        IN (/\ ~ViolatesInput(StepTarget, last'.args)
            /\ ~Raised(body.err)
            /\ Raised(validate(StepTarget.rule.OUT_, "function", body.ret)))
           => (/\ last'.err = OutputValueError
               /\ last'.ran
               /\ objs'[last'.who].dict = body.dict
               /\ StepTarget.f.body.set # "" =>
                     StepTarget.f.body.set \in DOMAIN objs'[last'.who].dict)]_vars

\* C2 witness: set_port(5) of a body that returns its argument raised
\* OutputValueError and the port it stored is in the instance.
C2_Witness ==
    /\ last.op = "call"
    /\ last.name = "set_port"
    /\ last.args = <<I5>>
    /\ last.err = OutputValueError
    /\ last.ran
    /\ "_port_id" \in DOMAIN objs[last.who].dict
    /\ objs[last.who].dict["_port_id"] = I5

\* C3: declaring a class against an interface whose rule set has a method
\* name absent from the class body raises MissingMethodError and binds no
\* class.
C3_MissingMethod ==
    [][(/\ last'.op = "class"
        /\ Len(last'.args) = 1
        /\ \E k \in DOMAIN rules[last'.args[1]].m : k \notin DOMAIN last'.body)
       => (/\ last'.err = MissingMethodError
           /\ classes' = classes)]_vars

\* C4: declaring a class raises SignatureMismatchError whenever some method of
\* the interface's rule set is implemented with another parameter-name
\* sequence, and not for that reason when all the sequences are equal.
C4_SignatureMismatch ==
    [][(last'.op = "class" /\ Len(last'.args) = 1) =>
        LET m == rules[last'.args[1]].m
            differs == \E k \in DOMAIN m \cap DOMAIN last'.body :
                         /\ last'.body[k].kind = "function"
                         /\ last'.body[k].args #
                               [j \in 1..Len(m[k].IN_) |-> m[k].IN_[j][1]]
        IN last'.err = SignatureMismatchError <=> differs]_vars

\* C5: assigning a non-member to an OptionSet property raises the property
\* variant of InputValueError and stores nothing; assigning a member stores
\* it, and the value stays until the next assignment, a get returning it.
C5_OptionSet ==
    [][/\ (last'.op = "set" /\ RuledAs(last'.who, last'.name, {"IOption"})) =>
            IF \E o \in ObjRule(last'.who).p[last'.name].OPTIONS :
                   PyEq(last'.args[1], o)
            THEN /\ ~Raised(last'.err)
                 /\ objs'[last'.who].dict =
                       (last'.name :> last'.args[1]) @@ objs[last'.who].dict
            ELSE /\ last'.err \in PropertyInputValueErrors
                 /\ objs' = objs
       /\ (/\ last'.op = "get"
           /\ RuledAs(last'.who, last'.name, {"IOption"})
           /\ last'.name \in DOMAIN objs[last'.who].dict) =>
            /\ ~Raised(last'.err)
            /\ last'.ret = objs[last'.who].dict[last'.name]
       /\ KeepsStored({"IOption"})]_vars

\* C5 witness: a get of port_type returned the 'ftp' assigned to it.
C5_Witness ==
    /\ last.op = "get"
    /\ last.name = "port_type"
    /\ RuledAs(last.who, "port_type", {"IOption"})
    /\ ~Raised(last.err)
    /\ last.ret = Sftp

\* The zero value of a type, as the specification gives it.
ZeroValue(T) ==
    CASE T = "str" -> Scalar("str", "")
      [] T = "int" -> Scalar("int", "0")
      [] OTHER -> NoneV

\* C6: a get of an ExactType(T) property the instance does not hold returns
\* T's zero value and stores it; a get of one it holds returns the stored
\* value and changes nothing; the stored value stays until an assignment.
C6_ZeroValueCached ==
    [][/\ (last'.op = "get" /\ RuledAs(last'.who, last'.name, {"_IValue"})) =>
            LET d == objs[last'.who].dict
                zero == ZeroValue(ObjRule(last'.who).p[last'.name].TYPE)
            IN /\ ~Raised(last'.err)
               /\ IF last'.name \in DOMAIN d
                  THEN last'.ret = d[last'.name] /\ objs' = objs
                  ELSE /\ last'.ret = zero
                       /\ objs'[last'.who].dict = (last'.name :> zero) @@ d
       /\ KeepsStored({"_IValue"})]_vars

\* C6 witness: a get of name returned '' and the instance holds it.
C6_Witness ==
    /\ last.op = "get"
    /\ last.name = "name"
    /\ RuledAs(last.who, "name", {"_IValue"})
    /\ last.ret = SEmpty
    /\ "name" \in DOMAIN objs[last.who].dict
    /\ objs[last.who].dict["name"] = SEmpty

\* C7: every assignment to a FixedValue property raises
\* ReadOnlyPropertyError and leaves every instance's store unchanged.
C7_ReadOnly ==
    [][(last'.op = "set" /\ RuledAs(last'.who, last'.name, {"literal"}))
       => (/\ last'.err = ReadOnlyPropertyError
           /\ objs' = objs)]_vars

\* C7 witness: after version was read, assigning it the value it holds was
\* rejected.
C7_Witness ==
    /\ last.op = "set"
    /\ last.name = "version"
    /\ last.err = ReadOnlyPropertyError
    /\ "version" \in DOMAIN objs[last.who].dict
    /\ last.args = <<objs[last.who].dict["version"]>>

\* The store of instance i agrees with the fixed value of name n: it holds
\* nothing under n, or the fixed value.
AgreesWithFixed(os, i, n) ==
    n \in DOMAIN os[i].dict => os[i].dict[n] = ObjRule(i).p[n].lit

\* C8: after any sequence of gets and sets on an instance, a get of a
\* FixedValue(v) property returns v.  By induction over the sequence: a fresh
\* instance holds nothing that disagrees with v, no get and no set makes the
\* store disagree with v, and a get on a store that agrees with v returns v
\* and stores v.
C8_FixedValueRead ==
    [][/\ last'.op = "new" /\ ~Raised(last'.err) =>
            \A n \in DOMAIN rules[inst_cls[last'.name]].p :
                rules[inst_cls[last'.name]].p[n].k = "literal" =>
                    (n \in DOMAIN objs'[last'.who].dict =>
                        objs'[last'.who].dict[n] =
                            rules[inst_cls[last'.name]].p[n].lit)
       /\ last'.op \in {"get", "set"} =>
            \A i \in 1..Len(objs) : \A n \in DOMAIN ObjRule(i).p :
                (ObjRule(i).p[n].k = "literal" /\ AgreesWithFixed(objs, i, n))
                => AgreesWithFixed(objs', i, n)
       /\ (/\ last'.op = "get"
           /\ RuledAs(last'.who, last'.name, {"literal"})
           /\ AgreesWithFixed(objs, last'.who, last'.name)) =>
            /\ ~Raised(last'.err)
            /\ last'.ret = ObjRule(last'.who).p[last'.name].lit
            /\ last'.name \in DOMAIN objs'[last'.who].dict]_vars

\* C8 witness: version, fixed to 5, was read as 5 from an instance that
\* already held it.
C8_Witness ==
    /\ last.op = "get"
    /\ last.name = "version"
    /\ RuledAs(last.who, "version", {"literal"})
    /\ ObjRule(last.who).p["version"].lit = I5
    /\ last.ret = I5
    /\ "version" \in DOMAIN objs[last.who].dict

\* C9: with no constructor rule in the interface, a constructor written in
\* the class body is kept as the class's __init__, and instantiating the
\* YourPort of the docstring leaves 'NOT_SET' for a get of name to return.
C9_OwnConstructorKept ==
    /\ \A cname \in DOMAIN classes :
          LET c == classes[cname]
          IN (/\ "__init__" \notin DOMAIN BoundRule(inst_cls, rules, cname).m
              /\ "__init__" \in DOMAIN c.namespace)
             => c.attrs["__init__"].f = c.namespace["__init__"]
    /\ (/\ last.op = "new"
        /\ ~Raised(last.err)
        /\ objs[last.who].cls.namespace = YourPortBody
        /\ "__init__" \notin DOMAIN ObjRule(last.who).m
        /\ RuledAs(last.who, "name", {"_IValue"}))
       => __getattr__(inst_cls, rules, objs[last.who].cls.name,
                      objs[last.who].dict, "name").ret = SNotSet

\* C10: declaring an interface under a name the registry already holds
\* leaves the registry as it was.
C10_RedeclarationIgnored ==
    [][(last'.op = "interface" /\ last'.name \in DOMAIN rules)
       => rules' = rules]_vars

\* C11: after any sequence of interface declarations, the method names and
\* the property names of every rule set are disjoint.
C11_NamesDisjoint ==
    \A n \in DOMAIN rules : DOMAIN rules[n].m \cap DOMAIN rules[n].p = {}

\* C12: no interface or class declaration changes the constraints enforced
\* on a class already bound: each of its method wrappers keeps its rule, and
\* an assignment or a read of each property on a fresh instance is answered
\* as before the declaration.
C12_ConstraintsFrozen ==
    [][last'.op \in {"interface", "class"} =>
        \A c \in DOMAIN classes :
            /\ last'.name # c => classes'[c].attrs = classes[c].attrs
            /\ \A n \in PropNames :
                /\ __getattr__(inst_cls', rules', c, <<>>, n) =
                       __getattr__(inst_cls, rules, c, <<>>, n)
                /\ \A v \in PropValues :
                       __setattr__(inst_cls', rules', c, <<>>, n, v) =
                           __setattr__(inst_cls, rules, c, <<>>, n, v)]_vars

\* C13: declaring a class with more than one interface as base fails with
\* DefinitionError, and neither a class nor a binding comes of it.
C13_MultipleBases ==
    [][(last'.op = "class" /\ Len(last'.args) > 1)
       => (/\ last'.err.cls = DefinitionError.cls
           /\ classes' = classes
           /\ inst_cls' = inst_cls)]_vars

\* The constraint a declared default stands for: ExactType of a bare type,
\* a TypedList or an OptionSet as declared.
CompiledDefault(d) ==
    IF d.k \in {"type", "class"} THEN _IValue(d.TYPE) ELSE d

\* C14: an interface declaration compiles each method it adds so that a
\* parameter whose default is a bare type is held to ExactType of that type
\* and one whose default is a TypedList or an OptionSet to that literal, and
\* it fails with DefinitionError exactly when some default is anything else.
C14_DefaultsCompiled ==
    [][last'.op = "interface" =>
        LET body == last'.body
            added == {k \in DOMAIN body :
                        /\ body[k].kind = "function"
                        /\ Len(body[k].defaults) = Len(body[k].args)
                        /\ last'.name \in DOMAIN rules =>
                              k \notin DOMAIN rules[last'.name].m}
            other == {k \in added : \E j \in 1..Len(body[k].defaults) :
                        body[k].defaults[j].k \notin
                            {"type", "class", "IList", "IOption"}}
        IN IF other # {}
           THEN last'.err.cls = DefinitionError.cls
           ELSE /\ ~Raised(last'.err)
                /\ \A k \in added :
                      /\ k \in DOMAIN rules'[last'.name].m
                      /\ rules'[last'.name].m[k].IN_ =
                            [j \in 1..Len(body[k].args) |->
                                <<body[k].args[j],
                                  CompiledDefault(body[k].defaults[j])>>]]_vars

\* C15: ExactType(T) validation passes exactly when the type of the value is
\* T itself; a boolean does not pass as an int.
C15_ExactType ==
    (last.op = "validate" /\ last.body.k = "_IValue") =>
        /\ ~Raised(last.err) <=> last.args[1].t = last.body.TYPE
        /\ (last.body.TYPE = "int" /\ last.args[1] \in {BTrue, BFalse}) =>
              last.err = Err("InterfaceValueError", "is required")

\* C15 witness: True was validated against ExactType(int) and rejected.
C15_Witness ==
    /\ last.op = "validate"
    /\ last.body = _IValue("int")
    /\ last.args = <<BTrue>>
    /\ Raised(last.err)

\* C16: TypedList(T) validation passes exactly when the value is a list and
\* each of its elements has type T: the empty list passes, and a list with an
\* element of another type fails at whatever position the element is.
C16_TypedList ==
    (last.op = "validate" /\ last.body.k = "IList") =>
        LET input == last.args[1]
        IN ~Raised(last.err) <=>
              /\ input.t = "list"
              /\ \A j \in 1..Len(input.els) : input.els[j].t = last.body.TYPE

\* C16 witness: [5, 'abc'] was validated against TypedList(int) and rejected.
C16_Witness ==
    /\ last.op = "validate"
    /\ last.body = IList("int")
    /\ last.args = <<List(<<I5, Sabc>>)>>
    /\ Raised(last.err)

\* The body of the step's target run once on the store before the step.
BodyOnce ==
    LET o == objs[last'.who]
    IN RunBody(inst_cls, rules, o.cls.name, o.dict, StepTarget.f, last'.args,
               NoKwrd)

\* C17: a wrapped call whose positional arguments satisfy their constraints
\* and whose body result satisfies OUT runs the body once and returns the
\* body's result: the caller gets that value, and the store is the one a
\* single run of the body leaves.
C17_ValidCall ==
    [][(/\ last'.op = "call"
        /\ StepTarget.wrapped
        /\ ~ViolatesInput(StepTarget, last'.args)
        /\ ~Raised(BodyOnce.err)
        /\ ~Raised(validate(StepTarget.rule.OUT_, "function", BodyOnce.ret)))
       => (/\ ~Raised(last'.err)
           /\ last'.ran
           /\ last'.ret = BodyOnce.ret
           /\ objs'[last'.who].dict = BodyOnce.dict)]_vars

\* C17 witness: after set_port(5), get_port() returned 5.
C17_Witness ==
    /\ last.op = "call"
    /\ last.name = "get_port"
    /\ last.args = <<>>
    /\ ~Raised(last.err)
    /\ last.ran
    /\ last.ret = I5
    /\ objs[last.who].cls.namespace = MyPortBody
    /\ objs[last.who].cls.attrs["get_port"].wrapped

\* The interface methods no declaration of the pools decorates with @returns.
Undecorated ==
    {k \in {"set_port", "get_port", "__init__"} :
        \A ns \in {IPortMethods, IPortInit} :
            k \in DOMAIN ns => ns[k].returns = NoReturns}

\* C18: a method declared without a return decoration must return nothing: a
\* call that passes its input checks raises OutputValueError when the body
\* returns a value other than None and succeeds when it returns None.
C18_ReturnsNothing ==
    [][(/\ last'.op = "call"
        /\ StepTarget.wrapped
        /\ last'.name \in Undecorated
        /\ ~ViolatesInput(StepTarget, last'.args)
        /\ ~Raised(BodyOnce.err))
       => IF BodyOnce.ret = NoneV
          THEN ~Raised(last'.err) /\ last'.ret = NoneV
          ELSE last'.err = OutputValueError]_vars

\* C18 witness: set_port(5), declared without @returns, returned None from a
\* body that returns nothing.
C18_Witness ==
    /\ last.op = "call"
    /\ last.name = "set_port"
    /\ last.args = <<I5>>
    /\ objs[last.who].cls.namespace = MyPortBody
    /\ objs[last.who].cls.attrs["set_port"].wrapped
    /\ ~Raised(last.err)
    /\ last.ret = NoneV

\* A value satisfies a constraint, as the specification defines the kinds.
Satisfies(rule, v) ==
    CASE rule.k = "_IValue" -> v.t = rule.TYPE
      [] rule.k = "IList" ->
            /\ v.t = "list"
            /\ \A j \in 1..Len(v.els) : v.els[j].t = rule.TYPE
      [] rule.k = "IOption" -> \E o \in rule.OPTIONS : PyEq(v, o)

\* C19: assigning a property ruled by ExactType, TypedList or OptionSet a
\* value that violates the rule raises the property variant of
\* InputValueError and stores nothing, also when a TypedList property is
\* given a value that is no list; a satisfying value is stored.
C19_PropertySet ==
    [][(/\ last'.op = "set"
        /\ RuledAs(last'.who, last'.name, {"_IValue", "IList", "IOption"}))
       => IF Satisfies(ObjRule(last'.who).p[last'.name], last'.args[1])
          THEN /\ ~Raised(last'.err)
               /\ objs'[last'.who].dict =
                     (last'.name :> last'.args[1]) @@ objs[last'.who].dict
          ELSE /\ last'.err \in PropertyInputValueErrors
               /\ objs' = objs]_vars

\* C20: assigning a name that has no property rule stores the value as it
\* is, whatever the value, and raises nothing; the value stays until the next
\* assignment, and a get of the name returns it.
C20_UnruledAttribute ==
    [][/\ (last'.op = "set" /\ last'.name \notin DOMAIN ObjRule(last'.who).p)
          => (/\ ~Raised(last'.err)
              /\ objs'[last'.who].dict =
                    (last'.name :> last'.args[1]) @@ objs[last'.who].dict)
       /\ (/\ last'.op = "get"
           /\ last'.name \notin DOMAIN ObjRule(last'.who).p
           /\ last'.name \in DOMAIN objs[last'.who].dict)
          => (/\ ~Raised(last'.err)
              /\ last'.ret = objs[last'.who].dict[last'.name]
              /\ objs' = objs)
       /\ last'.op # "set" =>
             \A i \in 1..Len(objs) : \A n \in DOMAIN objs[i].dict :
                 n \notin DOMAIN ObjRule(i).p =>
                     /\ n \in DOMAIN objs'[i].dict
                     /\ objs'[i].dict[n] = objs[i].dict[n]]_vars

\* C20 witness: _tag, which IPortMgr does not declare, was read back as the
\* mixed list assigned to it.
C20_Witness ==
    /\ last.op = "get"
    /\ last.name = "_tag"
    /\ "_tag" \notin DOMAIN ObjRule(last.who).p
    /\ ~Raised(last.err)
    /\ last.ret = List(<<I5, Sabc>>)

\* Instance i holds nothing under n, and n has no rule or the rule of a
\* TypedList or an OptionSet.
NoValueToGive(os, i, n) ==
    /\ n \notin DOMAIN os[i].dict
    /\ n \in DOMAIN ObjRule(i).p => ObjRule(i).p[n].k \in {"IList", "IOption"}

\* C21: a get of a name the instance holds no value for raises
\* UndeclaredAttributeError when the name has no rule and when its rule is a
\* TypedList or an OptionSet, and stores nothing; only an assignment that
\* succeeds gives the name a value, so a repeated get raises again.
C21_UndeclaredGet ==
    [][/\ (last'.op = "get" /\ NoValueToGive(objs, last'.who, last'.name))
          => (/\ last'.err = UndeclaredAttributeError
              /\ objs' = objs)
       /\ ~(last'.op = "set" /\ ~Raised(last'.err)) =>
             \A i \in 1..Len(objs) : \A n \in MgrNames :
                 NoValueToGive(objs, i, n) => n \notin DOMAIN objs'[i].dict]_vars

\* C21 witness: a get of ports, a TypedList property never assigned, raised
\* UndeclaredAttributeError.
C21_Witness ==
    /\ last.op = "get"
    /\ last.name = "ports"
    /\ RuledAs(last.who, "ports", {"IList"})
    /\ last.err = UndeclaredAttributeError
    /\ "ports" \notin DOMAIN objs[last.who].dict

\* C22: a class declared successfully with interface I as its single base is
\* bound to the rule set of I: that rule set has checked its body, each of
\* its methods is wrapped with I's rule for it, and its instances' property
\* accesses are held to I's property rules, whatever was declared before.
C22_BoundToOwnInterface ==
    [][(last'.op = "class" /\ ~Raised(last'.err) /\ Len(last'.args) = 1) =>
        LET I == rules'[last'.args[1]]
            cls == classes'[last'.name]
        IN /\ inst_cls'[last'.name] = last'.args[1]
           /\ BoundRule(inst_cls', rules', last'.name) = I
           /\ \A k \in DOMAIN I.m :
                 /\ k \in DOMAIN cls.attrs
                 /\ cls.attrs[k].wrapped
                 /\ cls.attrs[k].rule = I.m[k]]_vars

\* C28: a class declaration that fails records no binding of the class name
\* to a rule set.
C28_FailedClassUnbound ==
    [][(last'.op = "class" /\ Raised(last'.err)) => inst_cls' = inst_cls]_vars

\* C23: in a class declared successfully, every method name of the rule set
\* it is bound to is a function of the class body, and the class attribute
\* under that name is the wrapper of that function with the rule of that
\* name; so a body that gives such a name a value that is no function fails.
C23_MethodsWrapped ==
    [][(last'.op = "class" /\ ~Raised(last'.err)) =>
        LET rule == BoundRule(inst_cls', rules', last'.name)
            cls == classes'[last'.name]
        IN \A k \in DOMAIN rule.m :
              /\ k \in DOMAIN last'.body
              /\ last'.body[k].kind = "function"
              /\ cls.attrs[k] = _check_method_IO(last'.body[k], rule.m[k])]_vars

\* C24: in a compiled method rule the i-th pair names the i-th parameter
\* after the receiver and holds the constraint of that parameter's own
\* default, also when only the trailing parameters have a default.
C24_PairsAligned ==
    [][(last'.op = "interface" /\ last'.name \in DOMAIN rules') =>
        \A k \in DOMAIN rules'[last'.name].m :
            (/\ k \in DOMAIN last'.body
             /\ last'.body[k].kind = "function"
             /\ last'.name \in DOMAIN rules => k \notin DOMAIN rules[last'.name].m)
            => LET f == last'.body[k]
                   ins == rules'[last'.name].m[k].IN_
                   skip == Len(f.args) - Len(f.defaults)
               IN \A i \in 1..Len(ins) :
                     /\ ins[i][1] = f.args[i]
                     /\ i > skip
                     /\ ins[i][2] = CompiledDefault(f.defaults[i - skip])]_vars

\* C29: an interface declaration that fails leaves the registry as it was: no
\* rule set, complete or partial, is registered by it.
C29_FailedInterfaceUnregistered ==
    [][(last'.op = "interface" /\ Raised(last'.err)) => rules' = rules]_vars

\* The call f(*args, **kwrd) of the step's target on the store before the
\* step, with the keyword arguments of the step.
BodyCalled ==
    LET o == objs[last'.who]
    IN RunBody(inst_cls, rules, o.cls.name, o.dict, StepTarget.f, last'.args,
               last'.body)

\* C25: a wrapped call checks the k-th positional argument against the k-th
\* IN constraint up to the shorter of the two and checks no other input: when
\* the arguments supplied pass, no InputValueError is raised, also for fewer
\* arguments than constraints, and the body is called with them.
C25_PairwiseOnly ==
    [][(last'.op = "call" /\ StepTarget.wrapped) =>
        IF ViolatesInput(StepTarget, last'.args)
        THEN last'.err = InputValueError /\ ~last'.ran
        ELSE /\ last'.err # InputValueError
             /\ last'.ran = BodyCalled.ran
             /\ objs'[last'.who].dict = BodyCalled.dict
             /\ ~Raised(BodyCalled.err) => last'.ran]_vars

\* C25 witness: set_port() with no argument, one fewer than the constraints,
\* ran the body, which stored the default of its parameter.
C25_Witness ==
    /\ last.op = "call"
    /\ last.name = "set_port"
    /\ last.args = <<>>
    /\ last.body = NoKwrd
    /\ objs[last.who].cls.attrs["set_port"].wrapped
    /\ Len(objs[last.who].cls.attrs["set_port"].rule.IN_) = 1
    /\ last.ran
    /\ last.err # InputValueError
    /\ "_port_id" \in DOMAIN objs[last.who].dict
    /\ objs[last.who].dict["_port_id"] = I0

\* C26: whenever the body of a wrapped method runs, each parameter with an
\* IN constraint that the caller gave a value, by position or by keyword,
\* holds a value that satisfies the constraint.
C26_BodySeesValidInputs ==
    [][(last'.op = "call" /\ StepTarget.wrapped /\ last'.ran) =>
        \A j \in 1..Len(StepTarget.rule.IN_) :
            LET n == StepTarget.rule.IN_[j][1]
                c == StepTarget.rule.IN_[j][2]
            IN /\ j <= Len(last'.args) => Satisfies(c, last'.args[j])
               /\ n \in DOMAIN last'.body => Satisfies(c, last'.body[n])]_vars

\* C27: an assignment to a property that raises leaves the store of the
\* instance as it was: every name it held it still holds with the same value,
\* which is what a get of the name returns next, and it holds no other name.
C27_FailedSetKeepsStore ==
    [][(last'.op = "set" /\ Raised(last'.err)) =>
        LET before == objs[last'.who]
            after == objs'[last'.who]
        IN /\ DOMAIN after.dict = DOMAIN before.dict
           /\ \A n \in DOMAIN before.dict :
                 /\ after.dict[n] = before.dict[n]
                 /\ __getattr__(inst_cls', rules', after.cls.name, after.dict,
                                n).ret = before.dict[n]
           /\ objs' = objs]_vars

\* C27 witness: port_type held 'ftp' when assigning it 'abc' raised, and it
\* holds 'ftp' still.
C27_Witness ==
    /\ last.op = "set"
    /\ last.name = "port_type"
    /\ last.args = <<Sabc>>
    /\ IsInterfaceValueError(last.err)
    /\ "port_type" \in DOMAIN objs[last.who].dict
    /\ objs[last.who].dict["port_type"] = Sftp

\* C30: every value an instance holds under the name of a property ruled by
\* ExactType, TypedList or OptionSet satisfies the constraint now enforced
\* for that property, and an assignment or a get on one instance leaves the
\* store of every other instance as it was.
C30_StoredValuesValid ==
    [][/\ \A i \in 1..Len(objs') : \A n \in DOMAIN objs'[i].dict :
             LET p == BoundRule(inst_cls', rules', objs'[i].cls.name).p
             IN (n \in DOMAIN p /\ p[n].k \in {"_IValue", "IList", "IOption"})
                => Satisfies(p[n], objs'[i].dict[n])
       /\ last'.op \in {"set", "get"} =>
             \A j \in 1..Len(objs) : j # last'.who => objs'[j] = objs[j]]_vars

====
